---- MODULE Spec2Model ----
(***************************************************************************)
(* Model of Support/bin/texMate.py, the build coordinator of the LaTeX     *)
(* bundle: the main program (command dispatch, the builtin sequence        *)
(* latex, bibtex, index, latex, latex, the run summary and the exit code)  *)
(* and the process runners run_latex, run_bibtex, run_biber,               *)
(* run_makeindex and run_makeglossaries.                                   *)
(*                                                                         *)
(* One execution of the program is a record builds[b].  Under Spec there   *)
(* is one build.  Under PairSpec there are two, so that statements         *)
(* comparing two builds can be checked: they run on the same command,      *)
(* preferences and files, read the same classifier results, and draw the   *)
(* exit statuses of their processes independently.  Under HistorySpec the  *)
(* one build also keeps the sums of the counts its stages returned         *)
(* (sumErrs, sumWarns), which the program itself does not keep.            *)
(*                                                                         *)
(* What the program reads from outside (preferences, the existence of      *)
(* files) is held as the set of values the entry may still have; the first *)
(* read the program acts on picks one and every later read sees the same   *)
(* value.                                                                  *)
(*                                                                         *)
(* The parsers are imported from the module texparser; texparser is the    *)
(* set of ways a call of parseStream may end.  It ends as the stream       *)
(* classifier is specified to: it returns at the end of the stream.  Under *)
(* ParserSpec alone it may also return before the end of the stream or     *)
(* raise, which shows what texMate.py does with such a parser.             *)
(***************************************************************************)
EXTENDS Integers, Sequences, FiniteSets, TLC

\* ---------------------------------------------------------------- bounds
MaxCount == 1      \* largest error / warning count one parseStream returns
MaxStatus == 1     \* largest exit status a process returns
MaxAux == 2        \* largest number of .aux files run_bibtex's glob matches
MaxMkRuns == 1     \* largest numRuns ParseLatexMk reports
MaxPairAux == 1    \* MaxAux for the two builds of PairSpec
MaxArtifacts == 1  \* largest number of files the patterns of 'clean' match
MaxIncludes == 1   \* largest number of \input and \include files of the preamble

Statuses == 0..MaxStatus
\* The commands of the if/elif chain of the main program, "version" (line
\* 862), and a string that no branch matches.
Commands ==
    {"latex", "latexmk", "builtin", "bibtex", "index", "clean", "chktex", "view",
     "sync", "version", "frobnicate"}

\* sys.argv without the name of the script: no command, or one.
Argvs == {<<>>} \cup {<<c>> : c \in Commands}

Viewers == {"TextMate", "Skim"}
Engines == {"pdflatex", "builtin"}

\* The path strings of the tex files; the program starts on TM_FILEPATH.
Paths == {"a.tex", "b.tex", "c.tex"}
TM_FILEPATH == "a.tex"

\* "for i in range(20)": find_TEX_directives reads the first 20 lines of a file.
HeaderLines == 20

\* The lines of a file that may hold a directive (every other line is text).
LineNumbers == {1, 20, 21}

\* A line: text, or "%!TEX <key> = <value>".  The regular expression of line
\* 640 also matches a directive without a value ("%!TEX root ="): group 2 is
\* then the empty string.
Plain == [key |-> "", value |-> ""]
Directive(key, value) == [key |-> key, value |-> value]
NoValue == ""
Programs == {"latex", "lualatex"}
Lines ==
    {Plain} \cup {Directive("root", p) : p \in Paths}
            \cup {Directive("root", NoValue)}
            \cup {Directive("TS-program", e) : e \in Programs}

\* The packages a document may load, and the executables the program runs by
\* name ("engine" is the typesetting engine constructEngineCommand selects).
latexIndicators == {"pstricks", "xyling", "pst-asr", "OTtablx", "epsfig"}
xelatexIndicators == {"xunicode", "fontspec"}
Packages == latexIndicators \cup xelatexIndicators \cup {"pdfsync"}
Executables ==
    {"engine", "latexmk", "bibtex", "biber", "makeindex", "makeglossaries", "chktex"}

\* The exit status of "sh -c" when the command is not found.
CommandNotFound == 127

\* How a call of parseStream may end: it returns at the end of the stream,
\* it returns before the end of the stream, it raises an exception.
ParseEnds == {"eof", "stopped", "raised"}

\* The stream classifier as it is specified: it consumes the stream to its
\* end and does not raise.
Classifier == {"eof"}

VARIABLES argv, texparser, tmPrefs, fs, builds, sched

vars == <<argv, texparser, tmPrefs, fs, builds, sched>>

\* ------------------------------------------------------------ data
\* What a parser's parseStream returns (fatal, errors, warnings); numRuns is the
\* attribute ParseLatexMk keeps beside it (0 for every other parser).
Results == [fatal : BOOLEAN, errors : 0..MaxCount, warnings : 0..MaxCount,
            numRuns : 0..MaxMkRuns]

ResultsOf(tool) ==
    IF tool = "latexmk" THEN Results ELSE {r \in Results : r.numRuns = 0}

\* Python's None and an int, for texStatus (None until a runner returns).
None == <<>>
Some(n) == <<n>>

\* A child process: Popen made it, its pipe is read to end-of-stream (eof),
\* wait() collected it (reaped).
\* result and status are the history of one bibtex run ((fatal, errors,
\* warnings) and the exit status), kept under BibtexSpec only.
Proc(tool) ==
    [tool |-> tool, eof |-> FALSE, reaped |-> FALSE, result |-> <<>>, status |-> <<>>]

\* The child of "Popen(...).stdout.read()": read to the end, not waited for.
ReadOutput(tool) == [Proc(tool) EXCEPT !.eof = TRUE]

\* The child of subprocess.call: it has no pipe, and call waits for it.
Call(tool) == [Proc(tool) EXCEPT !.reaped = TRUE]

\* The child of subprocess.check_output: read to the end and waited for.
CheckOutput(tool) == [Proc(tool) EXCEPT !.eof = TRUE, !.reaped = TRUE]

\* n times the element x.
Repeat(x, n) == [i \in 1..n |-> x]

\* The dictionary find_TEX_directives returns: the value of a key, or None.
NoDirectives == [key \in {"root", "TS-program"} |-> None]

\* The locals of find_TEX_directives (f is the path of the open file).
NoWalk == [texfile |-> "", f |-> "", rootChain |-> <<>>, foundNewRoot |-> FALSE,
           i |-> 0]

\* The locals of a process runner.
NoFrame == [stat |-> 0, fatal |-> FALSE, errors |-> 0, warnings |-> 0,
            numRuns |-> 0, auxfiles |-> 0]

\* BitOr that keeps the status of the last process only.
LastStatus(a, b) == b

RECURSIVE BitOr(_, _)
BitOr(a, b) ==
    IF a = 0 THEN b
    ELSE IF b = 0 THEN a
    ELSE (IF a % 2 = 1 \/ b % 2 = 1 THEN 1 ELSE 0) + 2 * BitOr(a \div 2, b \div 2)

RECURSIVE CountTool(_, _)
CountTool(procs, tools) ==
    IF procs = <<>> THEN 0
    ELSE (IF Head(procs).tool \in tools THEN 1 ELSE 0) + CountTool(Tail(procs), tools)

SetLast(procs, field, val) ==
    [procs EXCEPT ![Len(procs)] = [@ EXCEPT ![field] = val]]

\* ------------------------------------------------------------ call sites
LatexSites == {"builtin_latex1", "builtin_latex2", "builtin_latex3", "latex_latex"}
BiberSites == {"builtin_biber", "bibtex_biber"}
BibtexSites == {"builtin_bibtex", "bibtex_bibtex"}
MakeindexSites == {"builtin_makeindex", "index_makeindex"}
MakeglossariesSites == {"index_makeglossaries"}

\* ------------------------------------------------------------ initial state
\* system is the list of the commands run with os.system after the single
\* pass; removed is the number of files the rm of 'clean' has unlinked (None
\* while it has not run).
InitBuild ==
    [pc |-> "main", rpc |-> "call", texCommand |-> "",
     numRuns |-> 0, stat |-> 0, texStatus |-> None,
     numErrs |-> 0, numWarns |-> 0, isFatal |-> FALSE, eCode |-> 0,
     frame |-> NoFrame, procs |-> <<>>, summary |-> <<>>, exited |-> None,
     viewerRuns |-> 0, sumErrs |-> 0, sumWarns |-> 0,
     walk |-> NoWalk, tsDirectives |-> NoDirectives, ltxPackages |-> {},
     engine |-> "", system |-> <<>>, removed |-> None]

\* The files of the document's directory: lines[p][n] is line n of the tex
\* file p, readable says whether the master file can be opened, packages is
\* the set of packages it loads, includes the number of files its preamble
\* includes, installed[x] whether the executable x is found, artifacts the
\* number of files the patterns of 'clean' match.  synctex says whether
\* "<engine> --help" mentions synctex (line 840), viewerApp whether find_app
\* finds the viewer application, pdfOpen whether check_open finds the PDF
\* open in the viewer.
Files(maxAux, lines, packages, includes, installed) ==
    [bcf |-> BOOLEAN, idx |-> BOOLEAN, glsdefs |-> BOOLEAN,
     auxfiles |-> 0..maxAux, lines |-> lines, readable |-> BOOLEAN,
     exists |-> [p \in Paths |-> BOOLEAN],
     packages |-> packages, includes |-> includes,
     installed |-> [x \in Executables |-> installed],
     artifacts |-> 0..MaxArtifacts,
     synctex |-> BOOLEAN, viewerApp |-> BOOLEAN, pdfOpen |-> BOOLEAN]

\* Files without directives, but for a root directive of the first file that
\* may name the file itself.
LoopLines ==
    [p \in Paths |-> [n \in LineNumbers |->
        IF p = TM_FILEPATH /\ n = 1
        THEN {Plain, Directive("root", TM_FILEPATH)} ELSE {Plain}]]

\* Files whose lines may hold any directive.
AnyLines == [p \in Paths |-> [n \in LineNumbers |-> Lines]]

\* The preferences, each with any of its values.
Preferences ==
    [latexUselatexmk |-> BOOLEAN, latexEngine |-> Engines,
     latexAutoView |-> BOOLEAN, latexKeepLogWin |-> BOOLEAN,
     latexViewer |-> Viewers]

InitEnv(maxAux) ==
    /\ argv \in Argvs
    /\ tmPrefs = Preferences
    /\ fs = Files(maxAux, LoopLines, {{}, {"pstricks"}}, {0}, BOOLEAN)

\* The command lines but for 'builtin' given directly: the full build is then
\* the one lines 829-830 select ('latex' with the preference latexEngine
\* 'builtin').
SelectedArgvs == Argvs \ {<<"builtin">>}

\* InitEnv with every executable installed, a document without packages, and
\* the full build selected by the preferences.
InstalledEnv(maxAux) ==
    /\ argv \in SelectedArgvs
    /\ tmPrefs = Preferences
    /\ fs = Files(maxAux, LoopLines, {{}}, {0}, {TRUE})

NoSchedule ==
    [paired |-> FALSE, history |-> FALSE, perfile |-> FALSE, turn |-> 1,
     oracle |-> <<>>]

Init ==
    /\ InitEnv(MaxAux)
    /\ texparser = Classifier
    /\ builds = [b \in {1} |-> InitBuild]
    /\ sched = NoSchedule

HistoryInit ==
    /\ InitEnv(MaxAux)
    /\ texparser = Classifier
    /\ builds = [b \in {1} |-> InitBuild]
    /\ sched = [NoSchedule EXCEPT !.history = TRUE]

\* The command 'bibtex' on a document without .bcf file, with the history of
\* every bibtex run.
BibtexInit ==
    /\ argv = <<"bibtex">>
    /\ texparser = Classifier
    /\ tmPrefs = Preferences
    /\ fs = [Files(MaxAux, LoopLines, {{}}, {0}, BOOLEAN) EXCEPT !.bcf = {FALSE}]
    /\ builds = [b \in {1} |-> InitBuild]
    /\ sched = [NoSchedule EXCEPT !.perfile = TRUE]

\* Tex files with any directives in their lines.
DirectivesInit ==
    /\ argv \in Argvs
    /\ texparser = Classifier
    /\ tmPrefs = Preferences
    /\ fs = Files(MaxAux, AnyLines, {{}}, {0}, BOOLEAN)
    /\ builds = [b \in {1} |-> InitBuild]
    /\ sched = NoSchedule

\* A first file that may hold TS-program directives, and a document that
\* may load any of the packages and include files.
ProgramLines ==
    [p \in Paths |-> [n \in LineNumbers |->
        IF p = TM_FILEPATH
        THEN {Plain} \cup {Directive("TS-program", e) : e \in Programs}
        ELSE {Plain}]]

EngineInit ==
    /\ argv \in Argvs
    /\ texparser = Classifier
    /\ tmPrefs = Preferences
    /\ fs = Files(MaxAux, ProgramLines, SUBSET Packages, 0..MaxIncludes, BOOLEAN)
    /\ builds = [b \in {1} |-> InitBuild]
    /\ sched = NoSchedule

FairInit ==
    /\ InstalledEnv(MaxAux)
    /\ texparser = Classifier
    /\ builds = [b \in {1} |-> InitBuild]
    /\ sched = NoSchedule

\* A parser that may end in any way.
ParserInit ==
    /\ InstalledEnv(MaxPairAux)
    /\ texparser = ParseEnds
    /\ builds = [b \in {1} |-> InitBuild]
    /\ sched = NoSchedule

PairInit ==
    /\ InstalledEnv(MaxPairAux)
    /\ texparser = Classifier
    /\ builds = [b \in {1, 2} |-> InitBuild]
    /\ sched = [NoSchedule EXCEPT !.paired = TRUE]

Builds == DOMAIN builds

\* ------------------------------------------------------------ scheduling
Turn(b) == sched.turn = b

Yield(b, oracle) ==
    sched' = [sched EXCEPT !.turn = IF sched.paired THEN 3 - b ELSE b,
                           !.oracle = oracle]

\* The classifier results build b may read: build 1 reads any, and in a pair
\* build 2 reads what build 1 read at the same step.
Draw(b, tool) ==
    IF b = 1 \/ sched.oracle = <<>> THEN ResultsOf(tool)
    ELSE {sched.oracle[1]} \cap ResultsOf(tool)

Drawn(b, r) == IF sched.paired /\ b = 1 THEN <<r>> ELSE <<>>

\* A count a stage returned, as it is added to the sums of the history.
Audit(n) == IF sched.history THEN n ELSE 0

\* What one bibtex run returned, as it is kept in the history of the process.
Note(x) == IF sched.perfile THEN <<x>> ELSE <<>>

\* Popen(..., shell=True) starts a shell, which looks for the executable.
\* What wait() may return: the exit status of the tool, or that of the shell
\* that did not find it.
ExitStatuses(found) == IF found THEN Statuses ELSE {CommandNotFound}

\* The program learns from wait() whether the shell found the executable.
Lookup(tool, found) == fs' = [fs EXCEPT !.installed[tool] = {found}]

\* sys.exit(code) before the end of the main program.
Exit(s, code) == [s EXCEPT !.exited = Some(code), !.pc = "exited"]

\* An exception that no try statement catches (the program has none around
\* open() at line 636, the subscript of line 644 or a call of parseStream)
\* ends the program with a traceback and status 1.
Uncaught(s) == Exit(s, 1)

\* An entry of the outside world after the program has read the value v, or
\* has not read it.
Narrow(entry, v, read) == IF read THEN {v} ELSE entry

\* ------------------------------------------------------------ main: command line
\* Lines 799-805: the command is sys.argv[1]; without it the program writes
\* its usage and exits with 255.
main(b) ==
    /\ Turn(b) /\ builds[b].pc = "main"
    /\ builds' = [builds EXCEPT ![b] =
          IF argv = <<>> THEN Exit(builds[b], 255)
          ELSE [builds[b] EXCEPT !.texCommand = argv[1],
                                 !.pc = "find_TEX_directives"]]
    /\ Yield(b, sched.oracle)
    /\ UNCHANGED <<argv, texparser, tmPrefs, fs>>

\* ------------------------------------------------------------ find_TEX_directives
\* InChain that looks at the last file of the chain only.
InChainLastOnly(newtf, rootChain) == newtf = rootChain[Len(rootChain)]

\* Line 649: "newtf in rootChain".
InChain(newtf, rootChain) == \E k \in 1..Len(rootChain) : rootChain[k] = newtf

\* The lines after line i that "for i in range(20)" has still to read, and the
\* first of them.
Unread(i) == {n \in LineNumbers : n > i /\ n <= HeaderLines}
NextLine(i) == CHOOSE n \in Unread(i) : \A m \in Unread(i) : n <= m

\* Lines 640-661, one line of the open file.  The value of a root directive is
\* the path string lines 644-648 make of it; of a root directive without a
\* value, "m.group(2)[0]" raises IndexError.
ReadDirective(s, line) ==
    IF line.key = "root"
    THEN IF line.value = NoValue
         THEN Uncaught([s EXCEPT !.walk.foundNewRoot = TRUE])
         ELSE IF InChain(line.value, s.walk.rootChain)
         THEN Exit([s EXCEPT !.walk.foundNewRoot = TRUE], -1)
         ELSE [s EXCEPT !.walk = [@ EXCEPT !.foundNewRoot = TRUE,
                                           !.texfile = line.value,
                                           !.rootChain = Append(@, line.value)],
                        !.tsDirectives = [@ EXCEPT !["root"] = Some(line.value)]]
    ELSE IF line.key = "" THEN s
    ELSE [s EXCEPT !.tsDirectives = [@ EXCEPT ![line.key] = Some(line.value)]]

\* Lines 630-637: the locals, and at the top of the while loop open(texfile),
\* which raises IOError when the file cannot be opened.
find_TEX_directives_open(b) ==
    /\ Turn(b) /\ builds[b].pc \in {"find_TEX_directives", "while"}
    /\ LET w == IF builds[b].pc = "find_TEX_directives"
                THEN [NoWalk EXCEPT !.texfile = TM_FILEPATH,
                                    !.rootChain = <<TM_FILEPATH>>]
                ELSE builds[b].walk
       IN \E opened \in fs.exists[w.texfile] :
            /\ fs' = [fs EXCEPT !.exists[w.texfile] = {opened}]
            /\ builds' = [builds EXCEPT ![b] =
                  IF opened
                  THEN [builds[b] EXCEPT
                          !.walk = [w EXCEPT !.f = w.texfile, !.foundNewRoot = FALSE,
                                             !.i = 0],
                          !.pc = "for"]
                  ELSE Uncaught([builds[b] EXCEPT !.walk = w])]
    /\ Yield(b, sched.oracle)
    /\ UNCHANGED <<argv, texparser, tmPrefs>>

find_TEX_directives_readline(b) ==
    /\ Turn(b) /\ builds[b].pc = "for" /\ Unread(builds[b].walk.i) # {}
    /\ LET n == NextLine(builds[b].walk.i)
           f == builds[b].walk.f
       IN \E line \in fs.lines[f][n] :
            /\ fs' = [fs EXCEPT !.lines[f][n] = {line}]
            /\ builds' = [builds EXCEPT
                  ![b] = ReadDirective([builds[b] EXCEPT !.walk.i = n], line)]
    /\ Yield(b, sched.oracle)
    /\ UNCHANGED <<argv, texparser, tmPrefs>>

\* Lines 662-667: f.close(), and the end of the loop when no root was found.
find_TEX_directives_close(b) ==
    /\ Turn(b) /\ builds[b].pc = "for" /\ Unread(builds[b].walk.i) = {}
    /\ builds' = [builds EXCEPT
          ![b].pc = IF builds[b].walk.foundNewRoot THEN "while" ELSE "setup"]
    /\ Yield(b, sched.oracle)
    /\ UNCHANGED <<argv, texparser, tmPrefs, fs>>

find_TEX_directives(b) ==
    \/ find_TEX_directives_open(b)
    \/ find_TEX_directives_readline(b)
    \/ find_TEX_directives_close(b)

\* ------------------------------------------------------------ main: set-up
\* Lines 825-830: the command of the command line, changed by the preferences.
Normalize(texCommand, useLatexMk, latexEngine) ==
    IF texCommand = "latex" /\ useLatexMk THEN "latexmk"
    ELSE IF texCommand = "latex" /\ latexEngine = "builtin" THEN "builtin"
    ELSE texCommand

\* Entry with the bibliography step of the full build put before its first pass.
EntryBibliographyFirst(texCommand) ==
    CASE texCommand = "latexmk" -> "latexmk"
      [] texCommand = "bibtex" -> "bibtex"
      [] texCommand = "index" -> "index"
      [] texCommand = "clean" -> "clean"
      [] texCommand = "builtin" -> "builtin_bib"
      [] texCommand = "latex" -> "latex_latex"
      [] texCommand = "view" -> "view"
      [] texCommand = "sync" -> "sync"
      [] texCommand = "chktex" -> "chktex"
      [] OTHER -> "report"

\* Entry with the single pass of the command 'latex' taken for the first pass
\* of the full build.
EntryLatexFull(texCommand) ==
    CASE texCommand = "latexmk" -> "latexmk"
      [] texCommand = "bibtex" -> "bibtex"
      [] texCommand = "index" -> "index"
      [] texCommand = "clean" -> "clean"
      [] texCommand = "builtin" -> "builtin_latex1"
      [] texCommand = "latex" -> "builtin_latex1"
      [] texCommand = "view" -> "view"
      [] texCommand = "sync" -> "sync"
      [] texCommand = "chktex" -> "chktex"
      [] OTHER -> "report"

\* The first statement of the branch of the if/elif chain (lines 887-997)
\* that texCommand selects; the chain has no else, and with a string that no
\* branch matches the program goes on to the summary.
Entry(texCommand) ==
    CASE texCommand = "latexmk" -> "latexmk"
      [] texCommand = "bibtex" -> "bibtex"
      [] texCommand = "index" -> "index"
      [] texCommand = "clean" -> "clean"
      [] texCommand = "builtin" -> "builtin_latex1"
      [] texCommand = "latex" -> "latex_latex"
      [] texCommand = "view" -> "view"
      [] texCommand = "sync" -> "sync"
      [] texCommand = "chktex" -> "chktex"
      [] OTHER -> "report"

\* Lines 825-830.  Line 826 acts on latexUselatexmk, and line 829 reads
\* latexEngine, only with the command 'latex' ("and" does not evaluate its
\* second operand when the first is false).
setup(b) ==
    /\ Turn(b) /\ builds[b].pc = "setup"
    /\ \E useLatexMk \in tmPrefs.latexUselatexmk, latexEngine \in tmPrefs.latexEngine :
        LET texCommand == builds[b].texCommand
            cmd == Normalize(texCommand, useLatexMk, latexEngine)
        IN /\ tmPrefs' = [tmPrefs EXCEPT
                 !.latexUselatexmk = Narrow(@, useLatexMk, texCommand = "latex"),
                 !.latexEngine =
                     Narrow(@, latexEngine, texCommand = "latex" /\ ~useLatexMk)]
           /\ builds' = [builds EXCEPT ![b].texCommand = cmd, ![b].walk = NoWalk,
                                       ![b].pc = "findTexPackages"]
    /\ Yield(b, sched.oracle)
    /\ UNCHANGED <<argv, texparser, fs>>

\* expand_name (lines 110-113): kpsewhich is started, its output is read to
\* the end, and it is not waited for.
expand_name == ReadOutput("kpsewhich")

\* Lines 565-616: expand_name for the master file, then the packages of the
\* master file, or sys.exit(1) when the file cannot be opened; expand_name
\* once more for every file the preamble includes (line 595).
findTexPackages(b) ==
    /\ Turn(b) /\ builds[b].pc = "findTexPackages"
    /\ \E readable \in fs.readable, packages \in fs.packages, includes \in fs.includes :
        IF readable
        THEN /\ fs' = [fs EXCEPT !.readable = {TRUE}, !.packages = {packages},
                                 !.includes = {includes}]
             /\ builds' = [builds EXCEPT
                   ![b].procs = @ \o Repeat(expand_name, 1 + includes),
                   ![b].ltxPackages = packages,
                   ![b].pc = "constructEngineCommand"]
        ELSE /\ fs' = [fs EXCEPT !.readable = {FALSE}]
             /\ builds' = [builds EXCEPT ![b] =
                   Exit([builds[b] EXCEPT !.procs = Append(@, expand_name)], 1)]
    /\ Yield(b, sched.oracle)
    /\ UNCHANGED <<argv, texparser, tmPrefs>>

usesOnePackage(testPack, allPackages) == \E p \in testPack : p \in allPackages

\* SelectEngine with the two package tests in the other order.
SelectEngineXelatexFirst(tsDirectives, latexEngine, packages) ==
    IF tsDirectives["TS-program"] # None THEN tsDirectives["TS-program"][1]
    ELSE IF usesOnePackage(xelatexIndicators, packages) THEN "xelatex"
    ELSE IF usesOnePackage(latexIndicators, packages) THEN "latex"
    ELSE latexEngine

\* Lines 739-750.
SelectEngine(tsDirectives, latexEngine, packages) ==
    IF tsDirectives["TS-program"] # None THEN tsDirectives["TS-program"][1]
    ELSE IF usesOnePackage(latexIndicators, packages) THEN "latex"
    ELSE IF usesOnePackage(xelatexIndicators, packages) THEN "xelatex"
    ELSE latexEngine

\* The last branch of lines 743-750 is the one that reads the preference.
ReadsLatexEngine(tsDirectives, packages) ==
    /\ tsDirectives["TS-program"] = None
    /\ ~usesOnePackage(latexIndicators, packages)
    /\ ~usesOnePackage(xelatexIndicators, packages)

\* Lines 862 and 887: the command 'version' is served before the if/elif
\* chain.
Dispatch(texCommand) ==
    IF texCommand = "version" THEN "version" ELSE Entry(texCommand)

\* Lines 838 and 739-757: the engine, or sys.exit(1) when "type <engine>" does
\* not find it; then the command 'version' or the branch of the if/elif chain
\* of line 887.
constructEngineCommand(b) ==
    /\ Turn(b) /\ builds[b].pc = "constructEngineCommand"
    /\ \E latexEngine \in tmPrefs.latexEngine, found \in fs.installed["engine"] :
        LET engine == SelectEngine(builds[b].tsDirectives, latexEngine,
                                   builds[b].ltxPackages)
        IN /\ tmPrefs' = [tmPrefs EXCEPT !.latexEngine =
                 Narrow(@, latexEngine,
                        ReadsLatexEngine(builds[b].tsDirectives, builds[b].ltxPackages))]
           /\ fs' = [fs EXCEPT !.installed["engine"] = {found}]
           /\ builds' = [builds EXCEPT ![b] =
                 IF found
                 THEN [builds[b] EXCEPT !.engine = engine,
                                        !.pc = Dispatch(builds[b].texCommand)]
                 ELSE Exit(builds[b], 1)]
    /\ Yield(b, sched.oracle)
    /\ UNCHANGED <<argv, texparser>>

\* Lines 862-865: "<engine> --version" is started, its output is read to the
\* end and its first line printed; the process is not waited for; sys.exit(0).
version(b) ==
    /\ Turn(b) /\ builds[b].pc = "version"
    /\ builds' = [builds EXCEPT ![b] =
          Exit([builds[b] EXCEPT !.procs = Append(@, ReadOutput("engine --version"))], 0)]
    /\ Yield(b, sched.oracle)
    /\ UNCHANGED <<argv, texparser, tmPrefs, fs>>

\* ------------------------------------------------------------ returning
\* "texStatus, isFatal, numErrs, numWarns = run_...(...)": the caller's tuple
\* assignment of what the runner returns (stat, fatal, errors, warnings).
Assign(s) ==
    [s EXCEPT !.texStatus = Some(s.frame.stat), !.isFatal = s.frame.fatal,
              !.numErrs = s.frame.errors, !.numWarns = s.frame.warnings]

\* ReturnTo with a first pass that is run once more when it was fatal.
ReturnToRetry(s) ==
    CASE s.pc = "builtin_latex1" ->
             IF s.isFatal /\ s.numRuns = 0 THEN "builtin_latex1" ELSE "builtin_bib"
      [] s.pc \in {"builtin_biber", "builtin_bibtex"} -> "builtin_idx"
      [] s.pc = "builtin_makeindex" -> "builtin_latex2"
      [] s.pc = "builtin_latex2" -> "builtin_latex3"
      [] s.pc = "builtin_latex3" -> "report"
      [] s.pc = "latex_latex" -> "latex_view"
      [] s.pc \in {"bibtex_biber", "bibtex_bibtex"} -> "report"
      [] s.pc \in {"index_makeglossaries", "index_makeindex"} -> "report"

\* The statement the main program goes on with after the call at a site.
ReturnTo(s) ==
    CASE s.pc = "builtin_latex1" -> "builtin_bib"
      [] s.pc \in {"builtin_biber", "builtin_bibtex"} -> "builtin_idx"
      [] s.pc = "builtin_makeindex" -> "builtin_latex2"
      [] s.pc = "builtin_latex2" -> "builtin_latex3"
      [] s.pc = "builtin_latex3" -> "report"
      [] s.pc = "latex_latex" -> "latex_view"
      [] s.pc \in {"bibtex_biber", "bibtex_bibtex"} -> "report"
      [] s.pc \in {"index_makeglossaries", "index_makeindex"} -> "report"

\* The runner returns: the locals go, the caller assigns, counts the pass after
\* run_latex ("numRuns += 1") and goes on.
Return(s) ==
    [Assign(s) EXCEPT !.pc = ReturnTo(Assign(s)), !.rpc = "call", !.frame = NoFrame,
                      !.numRuns = IF s.pc \in LatexSites THEN @ + 1 ELSE @]

\* ------------------------------------------------------------ runners
\* run_latex, run_biber, run_makeindex, run_makeglossaries: Popen with the two
\* output streams merged into one pipe; parseStream reads the pipe; wait()
\* collects the process; return.  The pipe is read to its end when
\* parseStream does so; when parseStream raises, wait() is not called.
RunnerPopen(b, sites, tool) ==
    /\ Turn(b) /\ builds[b].pc \in sites /\ builds[b].rpc = "call"
    /\ builds' = [builds EXCEPT ![b].procs = Append(@, Proc(tool)),
                                ![b].rpc = "parseStream"]
    /\ Yield(b, sched.oracle)
    /\ UNCHANGED <<argv, texparser, tmPrefs, fs>>

RunnerParse(b, sites, tool) ==
    /\ Turn(b) /\ builds[b].pc \in sites /\ builds[b].rpc = "parseStream"
    /\ \E end \in texparser :
        IF end = "raised"
        THEN /\ builds' = [builds EXCEPT ![b] = Uncaught(builds[b])]
             /\ Yield(b, sched.oracle)
        ELSE \E r \in Draw(b, tool) :
             /\ builds' = [builds EXCEPT
                   ![b].frame = [@ EXCEPT !.fatal = r.fatal, !.errors = r.errors,
                                          !.warnings = r.warnings],
                   ![b].procs = SetLast(@, "eof", end = "eof"),
                   ![b].sumErrs = @ + Audit(r.errors),
                   ![b].sumWarns = @ + Audit(r.warnings),
                   ![b].rpc = "wait"]
             /\ Yield(b, Drawn(b, r))
    /\ UNCHANGED <<argv, texparser, tmPrefs, fs>>

\* RunnerWait that takes the status with poll() and does not wait for the
\* process.
RunnerPoll(b, sites) ==
    /\ Turn(b) /\ builds[b].pc \in sites /\ builds[b].rpc = "wait"
    /\ LET tool == builds[b].procs[Len(builds[b].procs)].tool
       IN \E found \in fs.installed[tool] : \E stat \in ExitStatuses(found) :
            LET s == [builds[b] EXCEPT !.frame = [@ EXCEPT !.stat = stat]] IN
            /\ builds' = [builds EXCEPT ![b] = Return(s)]
            /\ Lookup(tool, found)
    /\ Yield(b, sched.oracle)
    /\ UNCHANGED <<argv, texparser, tmPrefs>>

RunnerWait(b, sites) ==
    /\ Turn(b) /\ builds[b].pc \in sites /\ builds[b].rpc = "wait"
    /\ LET tool == builds[b].procs[Len(builds[b].procs)].tool
       IN \E found \in fs.installed[tool] : \E stat \in ExitStatuses(found) :
            LET s == [builds[b] EXCEPT !.frame = [@ EXCEPT !.stat = stat],
                                       !.procs = SetLast(@, "reaped", TRUE)] IN
            /\ builds' = [builds EXCEPT ![b] = Return(s)]
            /\ Lookup(tool, found)
    /\ Yield(b, sched.oracle)
    /\ UNCHANGED <<argv, texparser, tmPrefs>>

run_latex(b) ==
    \/ RunnerPopen(b, LatexSites, "engine")
    \/ RunnerParse(b, LatexSites, "engine")
    \/ RunnerWait(b, LatexSites)

run_biber(b) ==
    \/ RunnerPopen(b, BiberSites, "biber")
    \/ RunnerParse(b, BiberSites, "biber")
    \/ RunnerWait(b, BiberSites)

run_makeindex(b) ==
    \/ RunnerPopen(b, MakeindexSites, "makeindex")
    \/ RunnerParse(b, MakeindexSites, "makeindex")
    \/ RunnerWait(b, MakeindexSites)

run_makeglossaries(b) ==
    \/ RunnerPopen(b, MakeglossariesSites, "makeglossaries")
    \/ RunnerParse(b, MakeglossariesSites, "makeglossaries")
    \/ RunnerWait(b, MakeglossariesSites)

\* run_bibtex: the glob of the .aux files, then one bibtex per file, the
\* results folded into the locals stat, fatal, errors, warnings.
run_bibtex_glob(b) ==
    /\ Turn(b) /\ builds[b].pc \in BibtexSites /\ builds[b].rpc = "call"
    /\ \E n \in fs.auxfiles :
        /\ fs' = [fs EXCEPT !.auxfiles = {n}]
        /\ builds' = [builds EXCEPT ![b].frame = [NoFrame EXCEPT !.auxfiles = n],
                                    ![b].rpc = "for"]
    /\ Yield(b, sched.oracle)
    /\ UNCHANGED <<argv, texparser, tmPrefs>>

run_bibtex_Popen(b) ==
    /\ Turn(b) /\ builds[b].pc \in BibtexSites /\ builds[b].rpc = "for"
    /\ builds[b].frame.auxfiles > 0
    /\ builds' = [builds EXCEPT ![b].procs = Append(@, Proc("bibtex")),
                                ![b].rpc = "parseStream"]
    /\ Yield(b, sched.oracle)
    /\ UNCHANGED <<argv, texparser, tmPrefs, fs>>

run_bibtex_parseStream(b) ==
    /\ Turn(b) /\ builds[b].pc \in BibtexSites /\ builds[b].rpc = "parseStream"
    /\ \E end \in texparser :
        IF end = "raised"
        THEN /\ builds' = [builds EXCEPT ![b] = Uncaught(builds[b])]
             /\ Yield(b, sched.oracle)
        ELSE \E r \in Draw(b, "bibtex") :
             /\ builds' = [builds EXCEPT
                   ![b].frame = [@ EXCEPT !.fatal = @ \/ r.fatal,
                                          !.errors = @ + r.errors,
                                          !.warnings = @ + r.warnings],
                   ![b].procs = SetLast(SetLast(@, "eof", end = "eof"), "result",
                                        Note([fatal |-> r.fatal, errors |-> r.errors,
                                              warnings |-> r.warnings])),
                   ![b].sumErrs = @ + Audit(r.errors),
                   ![b].sumWarns = @ + Audit(r.warnings),
                   ![b].rpc = "wait"]
             /\ Yield(b, Drawn(b, r))
    /\ UNCHANGED <<argv, texparser, tmPrefs, fs>>

run_bibtex_wait(b) ==
    /\ Turn(b) /\ builds[b].pc \in BibtexSites /\ builds[b].rpc = "wait"
    /\ \E found \in fs.installed["bibtex"] : \E stat \in ExitStatuses(found) :
        /\ builds' = [builds EXCEPT
              ![b].frame = [@ EXCEPT !.stat = BitOr(@, stat), !.auxfiles = @ - 1],
              ![b].procs = SetLast(SetLast(@, "reaped", TRUE), "status", Note(stat)),
              ![b].rpc = "for"]
        /\ Lookup("bibtex", found)
    /\ Yield(b, sched.oracle)
    /\ UNCHANGED <<argv, texparser, tmPrefs>>

run_bibtex_return(b) ==
    /\ Turn(b) /\ builds[b].pc \in BibtexSites /\ builds[b].rpc = "for"
    /\ builds[b].frame.auxfiles = 0
    /\ builds' = [builds EXCEPT ![b] = Return(builds[b])]
    /\ Yield(b, sched.oracle)
    /\ UNCHANGED <<argv, texparser, tmPrefs, fs>>

run_bibtex(b) ==
    \/ run_bibtex_glob(b)
    \/ run_bibtex_Popen(b)
    \/ run_bibtex_parseStream(b)
    \/ run_bibtex_wait(b)
    \/ run_bibtex_return(b)

\* ------------------------------------------------------------ main: branches
\* BibliographySite with a full build that does not look at the .bcf file.
BibliographySiteNoBcf(pc, bcf) ==
    IF pc = "bibtex"
    THEN (IF bcf THEN "bibtex_biber" ELSE "bibtex_bibtex")
    ELSE "builtin_bibtex"

\* Lines 910 and 941: biber when <basename>.bcf exists, run_bibtex otherwise.
BibliographySite(pc, bcf) ==
    IF pc = "bibtex"
    THEN (IF bcf THEN "bibtex_biber" ELSE "bibtex_bibtex")
    ELSE (IF bcf THEN "builtin_biber" ELSE "builtin_bibtex")

select_bibliography(b) ==
    /\ Turn(b) /\ builds[b].pc \in {"bibtex", "builtin_bib"}
    /\ \E bcf \in fs.bcf :
        /\ fs' = [fs EXCEPT !.bcf = {bcf}]
        /\ builds' = [builds EXCEPT ![b].pc = BibliographySite(builds[b].pc, bcf)]
    /\ Yield(b, sched.oracle)
    /\ UNCHANGED <<argv, texparser, tmPrefs>>

\* Line 917, the command 'index': makeglossaries when <basename>.glsdefs
\* exists, makeindex otherwise.
IndexSite(glsdefs) ==
    IF glsdefs THEN "index_makeglossaries" ELSE "index_makeindex"

select_index(b) ==
    /\ Turn(b) /\ builds[b].pc = "index"
    /\ \E glsdefs \in fs.glsdefs :
        /\ fs' = [fs EXCEPT !.glsdefs = {glsdefs}]
        /\ builds' = [builds EXCEPT ![b].pc = IndexSite(glsdefs)]
    /\ Yield(b, sched.oracle)
    /\ UNCHANGED <<argv, texparser, tmPrefs>>

\* BuiltinIndexSite with makeindex run whether or not the .idx file exists, as
\* the command 'index' does.
BuiltinIndexSiteAlways(idx) == "builtin_makeindex"

\* Lines 946-947, the builtin sequence: makeindex when <basename>.idx exists,
\* and on to the second pass otherwise.
BuiltinIndexSite(idx) ==
    IF idx THEN "builtin_makeindex" ELSE "builtin_latex2"

builtin_index(b) ==
    /\ Turn(b) /\ builds[b].pc = "builtin_idx"
    /\ \E idx \in fs.idx :
        /\ fs' = [fs EXCEPT !.idx = {idx}]
        /\ builds' = [builds EXCEPT ![b].pc = BuiltinIndexSite(idx)]
    /\ Yield(b, sched.oracle)
    /\ UNCHANGED <<argv, texparser, tmPrefs>>

\* Lines 887-901 (latexmk) and 991-997 (chktex): the main program runs the
\* process itself; parseStream's result goes to isFatal, numErrs, numWarns at
\* once, wait()'s to texStatus.
InlinePopen(b, site, tool) ==
    /\ Turn(b) /\ builds[b].pc = site /\ builds[b].rpc = "call"
    /\ builds' = [builds EXCEPT ![b].procs = Append(@, Proc(tool)),
                                ![b].rpc = "parseStream"]
    /\ Yield(b, sched.oracle)
    /\ UNCHANGED <<argv, texparser, tmPrefs, fs>>

InlineParse(b, site, tool) ==
    /\ Turn(b) /\ builds[b].pc = site /\ builds[b].rpc = "parseStream"
    /\ \E end \in texparser :
        IF end = "raised"
        THEN /\ builds' = [builds EXCEPT ![b] = Uncaught(builds[b])]
             /\ Yield(b, sched.oracle)
        ELSE \E r \in Draw(b, tool) :
             /\ builds' = [builds EXCEPT
                   ![b].isFatal = r.fatal, ![b].numErrs = r.errors,
                   ![b].numWarns = r.warnings,
                   ![b].frame = [@ EXCEPT !.numRuns = r.numRuns],
                   ![b].procs = SetLast(@, "eof", end = "eof"),
                   ![b].sumErrs = @ + Audit(r.errors),
                   ![b].sumWarns = @ + Audit(r.warnings),
                   ![b].rpc = "wait"]
             /\ Yield(b, Drawn(b, r))
    /\ UNCHANGED <<argv, texparser, tmPrefs, fs>>

InlineWait(b, site, next) ==
    /\ Turn(b) /\ builds[b].pc = site /\ builds[b].rpc = "wait"
    /\ \E found \in fs.installed[site] : \E stat \in ExitStatuses(found) :
        /\ builds' = [builds EXCEPT ![b].texStatus = Some(stat),
                                    ![b].procs = SetLast(@, "reaped", TRUE),
                                    ![b].rpc = "call", ![b].pc = next]
        /\ Lookup(site, found)
    /\ Yield(b, sched.oracle)
    /\ UNCHANGED <<argv, texparser, tmPrefs>>

latexmk(b) ==
    \/ InlinePopen(b, "latexmk", "latexmk")
    \/ InlineParse(b, "latexmk", "latexmk")
    \/ InlineWait(b, "latexmk", "latexmk_view")

chktex(b) ==
    \/ InlinePopen(b, "chktex", "chktex")
    \/ InlineParse(b, "chktex", "chktex")
    \/ InlineWait(b, "chktex", "report")

\* clean with the output of rm parsed and the process waited for, as the
\* command 'chktex' does with its process.
clean_parsed(b) ==
    /\ Turn(b) /\ builds[b].pc = "clean"
    /\ \E r \in ResultsOf("rm"), stat \in Statuses :
        builds' = [builds EXCEPT
              ![b].procs = Append(@, [Proc("rm") EXCEPT !.eof = TRUE, !.reaped = TRUE]),
              ![b].isFatal = r.fatal, ![b].numErrs = r.errors,
              ![b].numWarns = r.warnings, ![b].texStatus = Some(stat),
              ![b].pc = "report"]
    /\ Yield(b, sched.oracle)
    /\ UNCHANGED <<argv, texparser, tmPrefs, fs>>

\* Lines 923-932: rm is started and a parser is made for its output; the
\* output is not parsed and the process is not waited for.
clean(b) ==
    /\ Turn(b) /\ builds[b].pc = "clean"
    /\ builds' = [builds EXCEPT ![b].procs = Append(@, Proc("rm")),
                                ![b].pc = "report"]
    /\ Yield(b, sched.oracle)
    /\ UNCHANGED <<argv, texparser, tmPrefs, fs>>

\* The rm process of line 930, which runs beside the main program: it unlinks
\* the files its patterns match.
rm(b) ==
    /\ Turn(b) /\ builds[b].removed = None
    /\ \E k \in 1..Len(builds[b].procs) : builds[b].procs[k].tool = "rm"
    /\ \E n \in fs.artifacts :
        /\ fs' = [fs EXCEPT !.artifacts = {0}]
        /\ builds' = [builds EXCEPT ![b].removed = Some(n)]
    /\ UNCHANGED <<argv, texparser, tmPrefs, sched>>

\* get_app_path (lines 341-346): check_output runs find_app, and the path is
\* None when find_app fails.
get_app_path == <<CheckOutput("find_app")>>

\* The viewers refresh_viewer can tell to reload a PDF (lines 439-446).
Refreshable == {"Skim", "TeXShop"}

\* Lines 397-402: only Skim, when it is found, has a command that shows a line
\* of the PDF.
HasSyncCommand(viewer, found) == found /\ viewer = "Skim"

\* "'pdfsync' in ltxPackages or synctex", the use_pdfsync of run_viewer.
UsePdfsync(packages, synctex) == "pdfsync" \in packages \/ synctex

\* run_viewer (lines 498-536): the children it makes and the status it
\* returns.  found is the answer of find_app, open that of check_open, status
\* the exit status of "open -a".  The status is 0 unless "open -a" is run.
run_viewer(viewer, found, use_pdfsync, open, status) ==
    IF viewer = "TextMate" THEN [children |-> <<>>, status |-> 0]
    ELSE IF HasSyncCommand(viewer, found) /\ use_pdfsync
    THEN [children |-> get_app_path \o <<Call("displayline")>>, status |-> 0]
    ELSE IF found /\ open
    THEN [children |-> get_app_path \o <<Call("check_open")>>
                          \o (IF viewer \in Refreshable
                              THEN <<Call("osascript")>> ELSE <<>>),
          status |-> 0]
    ELSE IF found
    THEN [children |-> get_app_path \o <<Call("check_open"), Call("open")>>,
          status |-> status]
    ELSE [children |-> get_app_path, status |-> 0]

\* What run_viewer reads of the outside world on its way.
ReadsViewerApp(viewer) == viewer # "TextMate"
ReadsSynctex(viewer, found, packages) ==
    HasSyncCommand(viewer, found) /\ "pdfsync" \notin packages
ReadsPdfOpen(viewer, found, use_pdfsync) ==
    viewer # "TextMate" /\ found /\ ~(HasSyncCommand(viewer, found) /\ use_pdfsync)

\* The exit statuses of a command run through the shell by subprocess.call.
CallStatuses == Statuses \cup {CommandNotFound}

\* Lines 902 and 964: "tmPrefs['latexAutoView'] and numErrs < 1".
AutoView(s, latexAutoView) == latexAutoView /\ s.numErrs < 1

\* Lines 960-963: after the single pass with the engine 'latex', dvips and
\* ps2pdf are run with os.system.
Convert(s) ==
    IF s.pc = "latex_view" /\ s.engine = "latex" THEN <<"dvips", "ps2pdf">> ELSE <<>>

\* A call of run_viewer by build b when called is true, and nothing when it
\* is false: the viewer preference and the outside world as far as they are
\* read, the children, and the status in stat.
ViewerStep(b, called, next) ==
    \E viewer \in tmPrefs.latexViewer, found \in fs.viewerApp,
       synctex \in fs.synctex, open \in fs.pdfOpen, status \in CallStatuses :
        LET packages == builds[b].ltxPackages
            use_pdfsync == UsePdfsync(packages, synctex)
            run == run_viewer(viewer, found, use_pdfsync, open, status)
        IN /\ tmPrefs' = [next EXCEPT !.latexViewer = Narrow(@, viewer, called)]
           /\ fs' = [fs EXCEPT
                 !.viewerApp = Narrow(@, found, called /\ ReadsViewerApp(viewer)),
                 !.synctex =
                     Narrow(@, synctex, called /\ ReadsSynctex(viewer, found, packages)),
                 !.pdfOpen =
                     Narrow(@, open, called /\ ReadsPdfOpen(viewer, found, use_pdfsync))]
           /\ builds' = [builds EXCEPT
                 ![b].stat = IF called THEN run.status ELSE @,
                 ![b].procs = IF called THEN @ \o run.children ELSE @,
                 ![b].viewerRuns = IF called THEN @ + 1 ELSE @,
                 ![b].numRuns = IF builds[b].pc = "latexmk_view"
                                THEN builds[b].frame.numRuns ELSE @,
                 ![b].frame = NoFrame,
                 ![b].system = Convert(builds[b]),
                 ![b].pc = "report"]

\* Lines 902-907 (after latexmk) and 960-968 (after the single pass).
auto_view(b) ==
    /\ Turn(b) /\ builds[b].pc \in {"latexmk_view", "latex_view"}
    /\ \E latexAutoView \in tmPrefs.latexAutoView :
        ViewerStep(b, AutoView(builds[b], latexAutoView),
                   [tmPrefs EXCEPT !.latexAutoView = {latexAutoView}])
    /\ Yield(b, sched.oracle)
    /\ UNCHANGED <<argv, texparser>>

\* Lines 970-974: the command 'view'.
view(b) ==
    /\ Turn(b) /\ builds[b].pc = "view"
    /\ ViewerStep(b, TRUE, tmPrefs)
    /\ Yield(b, sched.oracle)
    /\ UNCHANGED <<argv, texparser>>

\* Lines 976-989: the command 'sync'.  With pdfsync or synctex the program
\* asks for the viewer's sync command (find_app is run for any viewer) and
\* runs it, or sets stat to 1 when the viewer has none; without them it exits
\* with 206.
sync(b) ==
    /\ Turn(b) /\ builds[b].pc = "sync"
    /\ \E viewer \in tmPrefs.latexViewer, found \in fs.viewerApp,
          synctex \in fs.synctex, status \in CallStatuses :
        LET packages == builds[b].ltxPackages
            use_pdfsync == UsePdfsync(packages, synctex)
        IN /\ tmPrefs' = [tmPrefs EXCEPT !.latexViewer = Narrow(@, viewer, use_pdfsync)]
           /\ fs' = [fs EXCEPT
                 !.synctex = Narrow(@, synctex, "pdfsync" \notin packages),
                 !.viewerApp = Narrow(@, found, use_pdfsync)]
           /\ builds' = [builds EXCEPT ![b] =
                 IF ~use_pdfsync THEN Exit(builds[b], 206)
                 ELSE IF HasSyncCommand(viewer, found)
                 THEN [builds[b] EXCEPT
                         !.procs = @ \o get_app_path \o <<Call("displayline")>>,
                         !.stat = status, !.pc = "report"]
                 ELSE [builds[b] EXCEPT !.procs = @ \o get_app_path,
                                        !.stat = 1, !.pc = "report"]]
    /\ Yield(b, sched.oracle)
    /\ UNCHANGED <<argv, texparser>>

\* ------------------------------------------------------------ main: the end
\* Lines 1009-1012: the line "Found <numErrs> errors, and <numWarns> warnings in
\* <numRuns> runs", printed when texStatus != 0 (None included) or a count is
\* positive.
Summary(s) ==
    IF s.texStatus # Some(0) \/ s.numWarns > 0 \/ s.numErrs > 0
    THEN <<[numErrs |-> s.numErrs, numWarns |-> s.numWarns, numRuns |-> s.numRuns]>>
    ELSE <<>>

report(b) ==
    /\ Turn(b) /\ builds[b].pc = "report"
    /\ builds' = [builds EXCEPT ![b].eCode = 0, ![b].summary = Summary(builds[b]),
                                ![b].pc = "log_window"]
    /\ Yield(b, sched.oracle)
    /\ UNCHANGED <<argv, texparser, tmPrefs, fs>>

\* LogWindowCode without the test of the viewer.
LogWindowCodeAnyViewer(s, latexKeepLogWin, viewer) ==
    IF ~latexKeepLogWin
    THEN (IF s.numErrs = 0 THEN 200 ELSE 0)
    ELSE 0

\* LogWindowCode that also wants the last process to have exited with 0.
LogWindowCodeOnStatus(s, latexKeepLogWin, viewer) ==
    IF ~latexKeepLogWin
    THEN (IF s.numErrs = 0 /\ s.texStatus = Some(0) /\ viewer # "TextMate"
          THEN 200 ELSE 0)
    ELSE 0

\* Lines 1023-1029.
LogWindowCode(s, latexKeepLogWin, viewer) ==
    IF ~latexKeepLogWin
    THEN (IF s.numErrs = 0 /\ viewer # "TextMate" THEN 200 ELSE 0)
    ELSE 0

log_window(b) ==
    /\ Turn(b) /\ builds[b].pc = "log_window"
    /\ \E latexKeepLogWin \in tmPrefs.latexKeepLogWin, viewer \in tmPrefs.latexViewer :
        /\ tmPrefs' = [tmPrefs EXCEPT !.latexKeepLogWin = {latexKeepLogWin},
                                      !.latexViewer = {viewer}]
        /\ builds' = [builds EXCEPT
              ![b].eCode = LogWindowCode(builds[b], latexKeepLogWin, viewer),
              ![b].pc = "exit"]
    /\ Yield(b, sched.oracle)
    /\ UNCHANGED <<argv, texparser, fs>>

\* Line 1077: sys.exit(eCode).
sys_exit(b) ==
    /\ Turn(b) /\ builds[b].pc = "exit"
    /\ builds' = [builds EXCEPT ![b].exited = Some(builds[b].eCode), ![b].pc = "done"]
    /\ Yield(b, sched.oracle)
    /\ UNCHANGED <<argv, texparser, tmPrefs, fs>>

\* ------------------------------------------------------------ specification
Next ==
    \E b \in {1, 2} :
        \/ main(b)
        \/ find_TEX_directives(b)
        \/ setup(b)
        \/ findTexPackages(b)
        \/ constructEngineCommand(b)
        \/ version(b)
        \/ select_bibliography(b)
        \/ select_index(b)
        \/ builtin_index(b)
        \/ run_latex(b)
        \/ run_biber(b)
        \/ run_bibtex(b)
        \/ run_makeindex(b)
        \/ run_makeglossaries(b)
        \/ latexmk(b)
        \/ chktex(b)
        \/ clean(b)
        \/ rm(b)
        \/ auto_view(b)
        \/ view(b)
        \/ sync(b)
        \/ report(b)
        \/ log_window(b)
        \/ sys_exit(b)

Spec == Init /\ [][Next]_vars

\* One build, with the sums of the counts of its stages.
HistorySpec == HistoryInit /\ [][Next]_vars

\* Two builds of the same document, taking turns.
PairSpec == PairInit /\ [][Next]_vars

\* One build with a parser that may return early or raise.
ParserSpec == ParserInit /\ [][Next]_vars

\* The command 'bibtex' up to the return of run_bibtex.
BibtexNext ==
    \E b \in {1, 2} :
        \/ main(b)
        \/ find_TEX_directives(b)
        \/ setup(b)
        \/ findTexPackages(b)
        \/ constructEngineCommand(b)
        \/ select_bibliography(b)
        \/ run_bibtex(b)

BibtexSpec == BibtexInit /\ [][BibtexNext]_vars

\* find_TEX_directives alone; the loop takes its next step as long as it has
\* one.
DirectivesNext == \E b \in {1, 2} : main(b) \/ find_TEX_directives(b)

DirectivesSpec ==
    DirectivesInit /\ [][DirectivesNext]_vars /\ WF_vars(DirectivesNext)

\* The program up to the return of constructEngineCommand.
EngineNext ==
    \E b \in {1, 2} :
        \/ main(b)
        \/ find_TEX_directives(b)
        \/ setup(b)
        \/ findTexPackages(b)
        \/ constructEngineCommand(b)

EngineSpec == EngineInit /\ [][EngineNext]_vars

\* The program is one sequential process: it takes its next step as long as it
\* has one (every external process is taken to terminate, every executable
\* to be installed).
FairSpec == FairInit /\ [][Next]_vars /\ WF_vars(Next)

\* ------------------------------------------------------------ vocabulary
\* The build runs the full sequence (the branch of line 934).
Dispatched(s) ==
    s.pc \notin {"main", "find_TEX_directives", "while", "for", "setup",
                 "findTexPackages", "constructEngineCommand", "exited"}

Builtin(s) == s.texCommand = "builtin" /\ Dispatched(s)

Done(s) == s.pc = "done"

\* The tools of the stages of a build, and the stage processes a build has
\* started, in the order it started them.  (The other children are those of
\* expand_name, of the command 'version', and of the viewer.)
StageTools ==
    {"engine", "latexmk", "bibtex", "biber", "makeindex", "makeglossaries",
     "chktex", "rm"}
IsStage(p) == p.tool \in StageTools
Stages(s) == SelectSeq(s.procs, IsStage)

Started(s, tools) == CountTool(s.procs, tools)

Typesetters == {"engine"}
BibliographyTools == {"bibtex", "biber"}
IndexTools == {"makeindex", "makeglossaries"}

\* A file the program tested is known to exist or not; one it never tested may
\* be either, and the build is the same for both.
MayExist(file) == TRUE \in file
MayBeMissing(file) == FALSE \in file

\* ------------------------------------------------------------ C1
\* C1: in the full build, once a stage has returned fatal = true (the main
\* program holds it in isFatal) no further stage process is started and the
\* error and warning totals stay as they were after the fatal stage.
C1_AbortOnFatal ==
    [][\A b \in Builds :
          Builtin(builds[b]) /\ builds[b].isFatal
          => /\ Len(Stages(builds'[b])) = Len(Stages(builds[b]))
             /\ builds'[b].numErrs = builds[b].numErrs
             /\ builds'[b].numWarns = builds[b].numWarns]_vars

\* ------------------------------------------------------------ C2
\* C2: at the end of a full build the error total and the warning total are
\* the sums of the counts every stage returned (sumErrs, sumWarns, kept under
\* HistorySpec), and with a warning returned by some stage the summary line is
\* printed and shows at least one warning.
C2_TotalsAreSums ==
    \A b \in Builds :
        Builtin(builds[b]) /\ Done(builds[b]) /\ sched.history
        => /\ builds[b].numErrs = builds[b].sumErrs
           /\ builds[b].numWarns = builds[b].sumWarns
           /\ builds[b].sumWarns >= 1 => /\ builds[b].summary # <<>>
                                         /\ builds[b].summary[1].numWarns >= 1

\* ------------------------------------------------------------ C3
\* C3: the fatal flag of a full build never goes back from true to false.
C3_FatalMonotonic ==
    [][\A b \in Builds :
          Builtin(builds[b]) /\ builds[b].isFatal => builds'[b].isFatal]_vars

\* ------------------------------------------------------------ C4
\* C4 as stated: with no .bcf and no .idx or .glsdefs file, a full build starts
\* the engine three times and no bibtex, biber, makeindex or makeglossaries.
C4_NoBibliographyProcess ==
    \A b \in Builds :
        /\ Builtin(builds[b]) /\ Done(builds[b])
        /\ fs.bcf = {FALSE} /\ fs.idx = {FALSE} /\ MayBeMissing(fs.glsdefs)
        => /\ Started(builds[b], Typesetters) = 3
           /\ Started(builds[b], BibliographyTools) = 0
           /\ Started(builds[b], IndexTools) = 0

\* C4, amended: with no .bcf and no .idx or .glsdefs file, a full build starts
\* the engine three times, no biber, no makeindex and no makeglossaries, and
\* one bibtex for each .aux file run_bibtex's glob matched.
C4_ThreePassesBibtexPerAux ==
    \A b \in Builds :
        /\ Builtin(builds[b]) /\ Done(builds[b])
        /\ fs.bcf = {FALSE} /\ fs.idx = {FALSE} /\ MayBeMissing(fs.glsdefs)
        => /\ Started(builds[b], Typesetters) = 3
           /\ Started(builds[b], {"biber"}) = 0
           /\ Started(builds[b], IndexTools) = 0
           /\ fs.auxfiles = {Started(builds[b], {"bibtex"})}
           /\ Len(Stages(builds[b])) = 3 + Started(builds[b], {"bibtex"})

C4_Witness ==
    \E b \in Builds :
        /\ Builtin(builds[b]) /\ Done(builds[b])
        /\ fs.bcf = {FALSE} /\ fs.idx = {FALSE}
        /\ fs.auxfiles = {1} /\ Started(builds[b], {"bibtex"}) = 1

\* ------------------------------------------------------------ C5
BibliographyBuild(s) == s.texCommand \in {"builtin", "bibtex"} /\ Dispatched(s)

\* C5 as stated: in the full build and in the command 'bibtex', with the .bcf
\* file biber is run (one process) and bibtex is not; without it bibtex is
\* run (at least one process) and biber is not; no build starts both.
C5_StandardIsRun ==
    \A b \in Builds :
        BibliographyBuild(builds[b])
        => /\ ~(Started(builds[b], {"biber"}) > 0 /\ Started(builds[b], {"bibtex"}) > 0)
           /\ Done(builds[b]) /\ fs.bcf = {TRUE}
                 => /\ Started(builds[b], {"biber"}) = 1
                    /\ Started(builds[b], {"bibtex"}) = 0
           /\ Done(builds[b]) /\ fs.bcf = {FALSE}
                 => /\ Started(builds[b], {"biber"}) = 0
                    /\ Started(builds[b], {"bibtex"}) >= 1

\* C5, amended: in the full build and in the command 'bibtex' the .bcf file
\* decides the bibliography processor: with it run_biber is called (one
\* biber) and no bibtex is started; without it run_bibtex is called, which
\* starts one bibtex for each .aux file its glob matches (none when it
\* matches none), and no biber is started; no build starts both.
C5_BibliographyExclusive ==
    \A b \in Builds :
        BibliographyBuild(builds[b])
        => /\ ~(Started(builds[b], {"biber"}) > 0 /\ Started(builds[b], {"bibtex"}) > 0)
           /\ (builds[b].pc \in BiberSites \/ Started(builds[b], {"biber"}) > 0)
                 => fs.bcf = {TRUE}
           /\ (builds[b].pc \in BibtexSites \/ Started(builds[b], {"bibtex"}) > 0)
                 => fs.bcf = {FALSE}
           /\ Done(builds[b]) /\ fs.bcf = {TRUE}
                 => /\ Started(builds[b], {"biber"}) = 1
                    /\ Started(builds[b], {"bibtex"}) = 0
           /\ Done(builds[b]) /\ fs.bcf = {FALSE}
                 => /\ Started(builds[b], {"biber"}) = 0
                    /\ fs.auxfiles = {Started(builds[b], {"bibtex"})}
           /\ Done(builds[b]) => Cardinality(fs.bcf) = 1

C5_Witness ==
    \E b \in Builds :
        /\ builds[b].texCommand = "bibtex" /\ Done(builds[b])
        /\ fs.bcf = {FALSE} /\ fs.auxfiles = {2}
        /\ Started(builds[b], {"bibtex"}) = 2 /\ Started(builds[b], {"biber"}) = 0

\* ------------------------------------------------------------ C6
\* C6: at the end of a full build, if the .glsdefs file exists makeglossaries
\* was run; otherwise if the .idx file exists makeindex was run; if neither
\* exists no index or glossary process was started.
C6_IndexVariant ==
    \A b \in Builds :
        Builtin(builds[b]) /\ Done(builds[b])
        => /\ MayExist(fs.glsdefs)
                 => /\ Started(builds[b], {"makeglossaries"}) = 1
                    /\ Started(builds[b], {"makeindex"}) = 0
           /\ ~MayExist(fs.glsdefs) /\ fs.idx = {TRUE}
                 => /\ Started(builds[b], {"makeindex"}) = 1
                    /\ Started(builds[b], {"makeglossaries"}) = 0
           /\ ~MayExist(fs.glsdefs) /\ fs.idx = {FALSE}
                 => Started(builds[b], IndexTools) = 0

\* ------------------------------------------------------------ C7
Tools(s) == LET stages == Stages(s) IN [i \in 1..Len(stages) |-> stages[i].tool]

EnginesBefore(s, i) == CountTool(SubSeq(Stages(s), 1, i - 1), Typesetters)

\* C7: in a full build every process is started after all earlier ones have
\* been waited for; the first is the engine; a bibliography process is
\* started after exactly one pass and before any index process; an index
\* process is started after exactly one pass; and at the end three passes
\* were made and the pass count numRuns, which the summary shows, is 3.
C7_StageOrder ==
    \A b \in Builds :
        Builtin(builds[b])
        => LET stages == Stages(builds[b])
               tools == Tools(builds[b])
               engines == Started(builds[b], Typesetters)
           IN  /\ \A i \in 1..Len(stages) :
                    /\ \A j \in 1..(i - 1) : stages[j].reaped
                    /\ i = 1 => tools[i] \in Typesetters
                    /\ tools[i] \in Typesetters \cup BibliographyTools \cup IndexTools
                    /\ tools[i] \in BibliographyTools
                          => /\ EnginesBefore(builds[b], i) = 1
                             /\ \A j \in 1..(i - 1) : tools[j] \notin IndexTools
                    /\ tools[i] \in IndexTools
                          => EnginesBefore(builds[b], i) = 1
               /\ builds[b].numRuns <= engines
               /\ engines <= builds[b].numRuns + 1
               /\ Done(builds[b])
                    => /\ builds[b].numRuns = 3
                       /\ engines = 3
                       /\ builds[b].summary # <<>> => builds[b].summary[1].numRuns = 3

C7_Witness ==
    \E b \in Builds :
        /\ Builtin(builds[b]) /\ Done(builds[b])
        /\ Tools(builds[b]) = <<"engine", "biber", "makeindex", "engine", "engine">>
        /\ builds[b].summary # <<>>

\* ------------------------------------------------------------ C8
\* The number of processes of each tool a full build starts, from the files
\* alone.
PlannedBiber == IF fs.bcf = {TRUE} THEN 1 ELSE 0
PlannedMakeindex == IF fs.idx = {TRUE} THEN 1 ELSE 0

C8_StartsFromFilesAlone ==
    \A b \in Builds :
        Builtin(builds[b])
        => /\ Started(builds[b], Typesetters) <= 3
           /\ Started(builds[b], {"biber"}) <= PlannedBiber
           /\ Started(builds[b], {"makeindex"}) <= PlannedMakeindex
           /\ Started(builds[b], {"bibtex"}) > 0
                => /\ fs.bcf = {FALSE}
                   /\ \A n \in fs.auxfiles : Started(builds[b], {"bibtex"}) <= n
           /\ Done(builds[b])
                => /\ Started(builds[b], Typesetters) = 3
                   /\ Started(builds[b], {"biber"}) = PlannedBiber
                   /\ Started(builds[b], {"makeindex"}) = PlannedMakeindex
                   /\ fs.bcf = {FALSE} => fs.auxfiles = {Started(builds[b], {"bibtex"})}
                   /\ Len(Stages(builds[b])) =
                        3 + Started(builds[b], BibliographyTools) + PlannedMakeindex

\* C8: a full build ends (every process taken to terminate) after three
\* passes, and the number of processes of each tool it starts is fixed by the
\* files alone, whatever exit status, error count or fatal flag the stages
\* return.
C8_TerminatesWithoutRetry ==
    /\ []C8_StartsFromFilesAlone
    /\ (Builtin(builds[1]) ~> Done(builds[1]))

C8_Witness ==
    /\ Builtin(builds[1]) /\ Done(builds[1])
    /\ builds[1].isFatal /\ builds[1].numErrs > 0 /\ builds[1].texStatus = Some(1)
    /\ Started(builds[1], Typesetters) = 3

\* ------------------------------------------------------------ C9
\* C9: a build that runs to its end exits with 200 exactly when the preference
\* latexKeepLogWin is off, the final error count is 0 and the viewer is not
\* TextMate, and with 0 otherwise.
C9_ExitCode ==
    \A b \in Builds :
        Done(builds[b])
        => /\ builds[b].exited \in {Some(0), Some(200)}
           /\ builds[b].exited = Some(200)
                <=> /\ tmPrefs.latexKeepLogWin = {FALSE}
                    /\ builds[b].numErrs = 0
                    /\ "TextMate" \notin tmPrefs.latexViewer
           /\ builds[b].numErrs > 0 => builds[b].exited = Some(0)
           /\ Cardinality(tmPrefs.latexKeepLogWin) = 1
           /\ Cardinality(tmPrefs.latexViewer) = 1

C9_Witness ==
    \E b \in Builds :
        /\ Done(builds[b]) /\ builds[b].exited = Some(200)
        /\ builds[b].texCommand = "builtin" /\ builds[b].numWarns > 0

\* ------------------------------------------------------------ C10
\* C10: two builds of the same command, preferences, viewer and files whose
\* stages return the same (fatal, errors, warnings) but whose processes exit
\* with statuses of their own are, after the same number of steps, at the
\* same statement, have started the same processes in the same order, hold
\* the same error and warning totals and pass count, and exit with the same
\* code; when both print the summary line it is the same line.
C10_StatusAdvisory ==
    sched.paired /\ sched.turn = 1
    => /\ builds[1].pc = builds[2].pc
       /\ builds[1].rpc = builds[2].rpc
       /\ Tools(builds[1]) = Tools(builds[2])
       /\ builds[1].numErrs = builds[2].numErrs
       /\ builds[1].numWarns = builds[2].numWarns
       /\ builds[1].numRuns = builds[2].numRuns
       /\ builds[1].eCode = builds[2].eCode
       /\ builds[1].exited = builds[2].exited
       /\ builds[1].summary # <<>> /\ builds[2].summary # <<>>
             => builds[1].summary = builds[2].summary

C10_Witness ==
    /\ sched.paired /\ sched.turn = 1
    /\ Builtin(builds[1]) /\ Done(builds[1]) /\ Done(builds[2])
    /\ builds[1].texStatus = Some(0) /\ builds[2].texStatus = Some(1)
    /\ builds[1].exited = Some(200)
    /\ Started(builds[1], {"bibtex"}) >= 1

\* ------------------------------------------------------------ C11
LintTools == {"chktex"}
CleanupTools == {"rm"}

\* The processes of the one stage a single-stage command runs.
OwnTools(texCommand) ==
    CASE texCommand = "bibtex" -> BibliographyTools
      [] texCommand = "index" -> IndexTools
      [] texCommand = "chktex" -> LintTools
      [] texCommand = "clean" -> CleanupTools
      [] texCommand = "latex" -> Typesetters

SingleStage(s) ==
    s.texCommand \in {"bibtex", "index", "chktex", "clean", "latex"} /\ Dispatched(s)

\* C11: a single-stage command starts processes of its own stage only; the
\* commands 'bibtex', 'index', 'chktex' and 'clean' start no engine and keep the
\* pass count 0; the command 'latex' (neither latexmk nor the full build
\* selected) has at its end started the engine exactly once, counted one pass
\* and started no other stage process; 'index', 'chktex' and 'clean' start
\* one process, 'bibtex' one biber or one bibtex for each .aux file.
C11_SingleStage ==
    \A b \in Builds :
        SingleStage(builds[b])
        => /\ \A i \in 1..Len(Stages(builds[b])) :
                 Stages(builds[b])[i].tool \in OwnTools(builds[b].texCommand)
           /\ builds[b].texCommand # "latex"
                 => /\ builds[b].numRuns = 0
                    /\ Started(builds[b], Typesetters) = 0
           /\ builds[b].texCommand = "latex"
                 => /\ Started(builds[b], Typesetters) <= 1
                    /\ builds[b].numRuns <= 1
           /\ builds[b].texCommand \in {"index", "chktex", "clean", "latex"}
                 => Len(Stages(builds[b])) <= 1
           /\ Done(builds[b])
                 => /\ builds[b].texCommand \in {"index", "chktex", "clean", "latex"}
                          => Len(Stages(builds[b])) = 1
                    /\ builds[b].texCommand = "latex" => builds[b].numRuns = 1
                    /\ builds[b].texCommand = "bibtex" /\ fs.bcf = {TRUE}
                          => Tools(builds[b]) = <<"biber">>
                    /\ builds[b].texCommand = "bibtex" /\ fs.bcf = {FALSE}
                          => fs.auxfiles = {Len(Stages(builds[b]))}

C11_Witness ==
    \E b \in Builds :
        /\ builds[b].texCommand = "latex" /\ Done(builds[b])
        /\ Tools(builds[b]) = <<"engine">> /\ builds[b].numRuns = 1
        /\ builds[b].system = <<"dvips", "ps2pdf">> /\ builds[b].viewerRuns = 1

\* ------------------------------------------------------------ C12
\* C12: the command 'clean' starts rm and never reads its output (no
\* classifier is fed); its error count, warning count and pass count are 0
\* throughout, the summary line, when printed, shows 0 errors, 0 warnings and
\* 0 runs; and where no file matches the patterns rm removes nothing.
C12_CleanNotParsed ==
    \A b \in Builds :
        builds[b].texCommand = "clean" /\ Dispatched(builds[b])
        => /\ \A i \in 1..Len(Stages(builds[b])) :
                 Stages(builds[b])[i].tool = "rm" /\ ~Stages(builds[b])[i].eof
           /\ builds[b].numErrs = 0 /\ builds[b].numWarns = 0
           /\ builds[b].numRuns = 0
           /\ builds[b].summary # <<>>
                 => builds[b].summary[1] = [numErrs |-> 0, numWarns |-> 0, numRuns |-> 0]
           /\ builds[b].removed # None => fs.artifacts = {0}
           /\ Done(builds[b]) => Tools(builds[b]) = <<"rm">>

C12_Witness ==
    \E b \in Builds :
        /\ builds[b].texCommand = "clean" /\ Done(builds[b])
        /\ builds[b].removed = Some(0) /\ builds[b].summary # <<>>
        /\ Tools(builds[b]) = <<"rm">>

\* ------------------------------------------------------------ C13
\* C13: when the program exits, every process it started has had its output
\* read to end-of-stream and has been waited for.
C13_ProcessesReleased ==
    \A b \in Builds :
        builds[b].exited # None
        => \A i \in 1..Len(Stages(builds[b])) :
              Stages(builds[b])[i].eof /\ Stages(builds[b])[i].reaped

\* ------------------------------------------------------------ C14
Alive(s) ==
    LET stages == Stages(s) IN {i \in 1..Len(stages) : ~stages[i].reaped}

\* C14: a process is waited for only after its output was read to its end;
\* a process is started only after every earlier one has been waited for
\* (the bibtex for the next .aux file included); a process runner has waited
\* for its process when it returns; so at most one process of a build is
\* alive at any time.
C14_OneAtATime ==
    \A b \in Builds :
        LET stages == Stages(builds[b])
            alive == Alive(builds[b])
        IN  /\ \A i \in 1..Len(stages) :
                  /\ stages[i].reaped => stages[i].eof
                  /\ \A j \in 1..(i - 1) : stages[j].reaped
            /\ Cardinality(alive) <= 1
            /\ builds[b].rpc \in {"call", "for"} /\ builds[b].texCommand # "clean"
                  => alive = {}

C14_Witness ==
    \E b \in Builds :
        /\ builds[b].pc = "builtin_bibtex" /\ builds[b].rpc = "parseStream"
        /\ Len(Stages(builds[b])) = 3 /\ Alive(builds[b]) = {3}
        /\ Stages(builds[b])[2].tool = "bibtex"

\* ------------------------------------------------------------ C15
\* C15: when an executable the build looks for is not found, no process has
\* been started, the counts of errors and warnings are 0, and the program
\* exits, with a status other than 0 and before any stage has run.
C15_MissingExecutableAborts ==
    \A b \in Builds : \A x \in Executables :
        fs.installed[x] = {FALSE}
        => /\ Stages(builds[b]) = <<>>
           /\ builds[b].numErrs = 0 /\ builds[b].numWarns = 0
           /\ builds[b].exited \notin {None, Some(0)}

\* ------------------------------------------------------------ C16
Typesets(s) == s.texCommand \in {"latexmk", "builtin", "latex"} /\ Dispatched(s)

\* C16: at the end of a build that typesets (latexmk, the full build, the
\* single pass) the viewer was started exactly when latexAutoView is set and
\* the error count is 0: not after a build with errors, not without
\* latexAutoView, and always otherwise.
C16_AutoViewAfterSuccess ==
    \A b \in Builds :
        Typesets(builds[b]) /\ Done(builds[b])
        => /\ builds[b].viewerRuns <= 1
           /\ builds[b].viewerRuns = 1
                 => tmPrefs.latexAutoView = {TRUE} /\ builds[b].numErrs = 0
           /\ MayExist(tmPrefs.latexAutoView) /\ builds[b].numErrs = 0
                 => builds[b].viewerRuns = 1

\* ------------------------------------------------------------ C17
\* The bitwise OR of two exit statuses (8 bits).
StatusOr(a, b) ==
    LET bit(k) == IF (a \div 2^k) % 2 = 1 \/ (b \div 2^k) % 2 = 1 THEN 2^k ELSE 0
    IN bit(0) + bit(1) + bit(2) + bit(3) + bit(4) + bit(5) + bit(6) + bit(7)

\* What the bibtex runs of a history returned, taken together.
RECURSIVE PerFile(_)
PerFile(procs) ==
    IF procs = <<>>
    THEN [stat |-> 0, fatal |-> FALSE, errors |-> 0, warnings |-> 0]
    ELSE LET rest == PerFile(SubSeq(procs, 1, Len(procs) - 1))
             last == procs[Len(procs)]
         IN [stat |-> StatusOr(rest.stat, last.status[1]),
             fatal |-> rest.fatal \/ last.result[1].fatal,
             errors |-> rest.errors + last.result[1].errors,
             warnings |-> rest.warnings + last.result[1].warnings]

\* C17: between two files and at its return run_bibtex holds fatal = the OR
\* of the fatal flags, errors and warnings = the sums of the counts, and
\* stat = the bitwise OR of the exit statuses of the bibtex runs so far (0
\* only if every run exited with 0); it returns after one bibtex for each
\* matching .aux file, and with no such file it starts no process and returns
\* (0, False, 0, 0).
C17_BibtexAggregates ==
    \A b \in Builds :
        LET s == builds[b]
            all == PerFile(Stages(s))
        IN /\ s.pc \in BibtexSites /\ s.rpc = "for"
                 => /\ s.frame.stat = all.stat /\ s.frame.fatal = all.fatal
                    /\ s.frame.errors = all.errors /\ s.frame.warnings = all.warnings
                    /\ fs.auxfiles = {Len(Stages(s)) + s.frame.auxfiles}
           /\ s.pc = "report"
                 => /\ s.texStatus = Some(all.stat) /\ s.isFatal = all.fatal
                    /\ s.numErrs = all.errors /\ s.numWarns = all.warnings
                    /\ fs.auxfiles = {Len(Stages(s))}
                    /\ \A i \in 1..Len(Stages(s)) : Stages(s)[i].tool = "bibtex"
                    /\ s.texStatus = Some(0)
                          <=> \A i \in 1..Len(Stages(s)) : Stages(s)[i].status = <<0>>
                    /\ Stages(s) = <<>>
                          => /\ s.texStatus = Some(0) /\ ~s.isFatal
                             /\ s.numErrs = 0 /\ s.numWarns = 0

C17_Witness ==
    \E b \in Builds :
        /\ builds[b].pc = "report" /\ Len(Stages(builds[b])) = 2
        /\ Stages(builds[b])[1].status = <<1>> /\ Stages(builds[b])[2].status = <<0>>
        /\ Stages(builds[b])[1].result[1].fatal /\ ~Stages(builds[b])[2].result[1].fatal
        /\ builds[b].texStatus = Some(1) /\ builds[b].isFatal
        /\ builds[b].numErrs = 2

\* ------------------------------------------------------------ C18
NoDuplicates(chain) ==
    \A i, j \in 1..Len(chain) : i # j => chain[i] # chain[j]

\* The line find_TEX_directives has read last.
LastRead(s) == CHOOSE line \in fs.lines[s.walk.f][s.walk.i] : TRUE

\* How the walk of build s ended in an exit: the file to open could not be
\* opened, a root directive had no value, or a root directive named a file
\* of the chain.
OpenFailed(s) == fs.exists[s.walk.texfile] = {FALSE}
NoValueRead(s) ==
    ~OpenFailed(s) /\ LastRead(s).key = "root" /\ LastRead(s).value = NoValue
LoopRead(s) ==
    /\ ~OpenFailed(s) /\ LastRead(s).key = "root" /\ LastRead(s).value # NoValue
    /\ InChain(LastRead(s).value, s.walk.rootChain)

\* C18 as stated: no path is twice in the chain; the program exits from
\* find_TEX_directives only on a root directive that names a file of the
\* chain, with -1; otherwise the function returns from a file without root
\* directive, and 'root' is the last file of the chain.
C18_RootIsLastOfChain ==
    \A b \in Builds :
        LET s == builds[b]
            chain == s.walk.rootChain
        IN /\ NoDuplicates(chain)
           /\ s.pc = "exited" /\ s.walk # NoWalk
                 => s.exited = Some(-1) /\ LoopRead(s)
           /\ s.pc = "setup"
                 => s.tsDirectives["root"] = Some(chain[Len(chain)])

\* No path is twice in the chain of root files, and the file that is read
\* is a file of the chain that could be opened.  The program exits from
\* find_TEX_directives with -1 on a root directive that names a file of the
\* chain, which is not followed, and with an uncaught exception (status 1)
\* when the file to open cannot be opened or a root directive has no value.
\* A root directive that names another file is followed: the file is the
\* last of the chain, the next to be opened and the value of 'root'.  The
\* function returns from a file whose first 20 lines hold no root directive,
\* the last of the chain; 'root' is that file when a root directive was
\* followed, and there is no 'root' when the first file holds none.
C18_ChainWalk ==
    \A b \in Builds :
        LET s == builds[b]
            chain == s.walk.rootChain
        IN /\ NoDuplicates(chain)
           /\ s.walk.f # "" => fs.exists[s.walk.f] = {TRUE} /\ InChain(s.walk.f, chain)
           /\ s.pc = "exited" /\ s.walk # NoWalk
                 => /\ s.exited \in {Some(-1), Some(1)}
                    /\ s.exited = Some(-1) <=> LoopRead(s)
                    /\ s.exited = Some(1) <=> OpenFailed(s) \/ NoValueRead(s)
                    /\ OpenFailed(s) => s.walk.texfile = chain[Len(chain)]
           /\ s.pc = "for" /\ s.walk.i > 0 /\ LastRead(s).key = "root"
                 => /\ chain[Len(chain)] = LastRead(s).value
                    /\ s.walk.texfile = LastRead(s).value
                    /\ s.tsDirectives["root"] = Some(LastRead(s).value)
                    /\ s.walk.foundNewRoot
           /\ s.pc = "setup"
                 => /\ s.walk.f = chain[Len(chain)] /\ s.walk.texfile = s.walk.f
                    /\ \A n \in LineNumbers : n <= HeaderLines
                          => \A line \in fs.lines[s.walk.f][n] : line.key # "root"
                    /\ s.tsDirectives["root"] =
                          IF Len(chain) > 1 THEN Some(chain[Len(chain)]) ELSE None

\* C18, amended: find_TEX_directives ends, by its return, by the exit on a
\* loop or by an uncaught exception (a file that cannot be opened, a root
\* directive without a value), and walks the chain as C18_ChainWalk says.
C18_WalkTerminates ==
    /\ []C18_ChainWalk
    /\ <>(builds[1].pc \in {"setup", "exited"})

C18_Witness ==
    /\ builds[1].pc = "setup"
    /\ builds[1].walk.rootChain = <<"a.tex", "b.tex", "c.tex">>
    /\ builds[1].tsDirectives["root"] = Some("c.tex")
    /\ \A p \in Paths : fs.exists[p] = {TRUE}

\* ------------------------------------------------------------ C19
\* C19: the engine is the value of the TS-program directive when there is
\* one; otherwise 'latex' when the document loads one of pstricks, xyling,
\* pst-asr, OTtablx, epsfig; otherwise 'xelatex' when it loads xunicode or
\* fontspec; otherwise the preference latexEngine, so that it is pdflatex
\* when the preference is.
C19_EnginePrecedence ==
    \A b \in Builds :
        builds[b].engine # ""
        => LET program == builds[b].tsDirectives["TS-program"]
               latexPackages ==
                   builds[b].ltxPackages
                     \cap {"pstricks", "xyling", "pst-asr", "OTtablx", "epsfig"}
               xelatexPackages == builds[b].ltxPackages \cap {"xunicode", "fontspec"}
           IN /\ program # None => builds[b].engine = program[1]
              /\ program = None /\ latexPackages # {} => builds[b].engine = "latex"
              /\ program = None /\ latexPackages = {} /\ xelatexPackages # {}
                    => builds[b].engine = "xelatex"
              /\ program = None /\ latexPackages = {} /\ xelatexPackages = {}
                    => /\ tmPrefs.latexEngine = {builds[b].engine}
                       /\ tmPrefs.latexEngine = {"pdflatex"}
                             => builds[b].engine = "pdflatex"

C19_Witness ==
    \E b \in Builds :
        /\ builds[b].engine = "latex"
        /\ builds[b].tsDirectives["TS-program"] = None
        /\ builds[b].ltxPackages = {"epsfig", "fontspec"}
        /\ tmPrefs.latexEngine = {"pdflatex"}

====
